---- MODULE Spec2Model ----
(***************************************************************************)
(* Tiled multi-core softmax kernels for the Ascend NPU.                    *)
(*                                                                         *)
(*   Variant A  tasks/04-softmax-ascend: two passes per row (sum, divide). *)
(*   Variant B  tasks/05-mixed-ascend:   three passes per region           *)
(*              (FindBlockMax, ComputeExpSumAndStore, Normalize).          *)
(*                                                                         *)
(* A geometry record g carries the compile-time constants of one build:    *)
(*   g.variant, g.size (SIZE / MATRIX_SIZE), g.cores (BLOCK_DIM /          *)
(*   USE_CORE_NUM), g.tileNum, g.bufferNum, g.blockDim (what the host      *)
(*   passes to the launch).  Every derived constant is computed from g by  *)
(*   the expression the source uses.  ShippedA and ShippedB are the        *)
(*   shipped builds; ModelGeoms are the builds with the same derivations   *)
(*   small enough to execute exhaustively.                                 *)
(***************************************************************************)
EXTENDS Integers, Sequences, FiniteSets, TLC

\* ------------------------------------------------------------------------
\* Program constants
\* ------------------------------------------------------------------------
BLOCK_DIM == 16
SIZE == 64
TILE_NUM_A == 2
BUFFER_NUM == 2
HOST_BLOCK_DIM == 16
MATRIX_SIZE == 96
USE_CORE_NUM == 96
TILE_NUM_B == 1

\* ------------------------------------------------------------------------
\* Bounds of the executable model
\* ------------------------------------------------------------------------
\* largest matrix dimension of an executed build
MaxSize == 4
\* largest number of execution units of an executed build
MaxUnits == 2
\* fixed-point scale of the float model: the float 1.0 is ONE units
ONE == 100
\* code of the float 1e37: floats of magnitude k*1e37 are coded k*E37
E37 == 1000

\* ------------------------------------------------------------------------
\* Geometry
\* ------------------------------------------------------------------------
ShippedA ==
    [variant |-> "A", size |-> SIZE, cores |-> BLOCK_DIM, tileNum |-> TILE_NUM_A,
     bufferNum |-> BUFFER_NUM, blockDim |-> HOST_BLOCK_DIM]

ShippedB ==
    [variant |-> "B", size |-> MATRIX_SIZE, cores |-> USE_CORE_NUM,
     tileNum |-> TILE_NUM_B, bufferNum |-> BUFFER_NUM, blockDim |-> USE_CORE_NUM]

TOTAL_LENGTH(g) == g.size * g.size

ROWS_PER_BLOCK(g) == g.size \div g.cores

\* faulty variant: a Variant B block of two rows
BLOCK_LENGTH_TwoRows(g) ==
    IF g.variant = "A" THEN g.size ELSE 2 * (TOTAL_LENGTH(g) \div g.cores)

BLOCK_LENGTH(g) ==
    IF g.variant = "A" THEN g.size ELSE TOTAL_LENGTH(g) \div g.cores

TILE_LENGTH(g) == (BLOCK_LENGTH(g) \div g.tileNum) \div g.bufferNum

\* number of tiles one pass of the loop `i < TILE_NUM * BUFFER_NUM` visits
TilesPerPass(g) == g.tileNum * g.bufferNum

\* faulty variant: the row count per unit left out of the offset
BaseOffset_NoRows(g, idx) == BLOCK_LENGTH(g) * idx

\* the element offset Init adds to the x and z pointers for unit idx
BaseOffset(g, idx) ==
    IF g.variant = "A"
    THEN BLOCK_LENGTH(g) * ROWS_PER_BLOCK(g) * idx
    ELSE BLOCK_LENGTH(g) * idx

\* the length Init declares for the global views
ViewLength(g) ==
    IF g.variant = "A" THEN BLOCK_LENGTH(g) * g.cores ELSE BLOCK_LENGTH(g)

\* elements one unit is assigned: ROWS_PER_BLOCK rows (A), one block (B)
RegionSize(g) ==
    IF g.variant = "A" THEN ROWS_PER_BLOCK(g) * BLOCK_LENGTH(g) ELSE BLOCK_LENGTH(g)

Units(g) == 0 .. (g.blockDim - 1)

Addrs(g) == 0 .. (TOTAL_LENGTH(g) - 1)

Region(g, idx) == BaseOffset(g, idx) .. (BaseOffset(g, idx) + RegionSize(g) - 1)

\* builds whose divisions are exact, with the shipped tiling constants and the
\* shipped relation between matrix and unit count (B: one unit per row)
ValidGeom(g) ==
    /\ g.blockDim = g.cores
    /\ g.size % g.cores = 0
    /\ BLOCK_LENGTH(g) % (g.tileNum * g.bufferNum) = 0
    /\ g.variant = "A" => g.tileNum = TILE_NUM_A
    /\ g.variant = "B" => g.tileNum = TILE_NUM_B /\ g.cores = g.size

ModelGeoms ==
    {g \in [variant : {"A", "B"}, size : 1 .. MaxSize, cores : 1 .. MaxUnits,
            tileNum : {TILE_NUM_A, TILE_NUM_B}, bufferNum : {BUFFER_NUM},
            blockDim : 1 .. MaxUnits] : ValidGeom(g)}

\* ------------------------------------------------------------------------
\* Float model.  Inputs are coded as integers (small floats as themselves,
\* k*1e37 as k*E37); exponentials, sums and quotients are fixed-point
\* numbers in units of 1/ONE.
\* ------------------------------------------------------------------------
\* the initial running maximum of FindBlockMax, -1e38f
NEG_1E38 == 0 - (10 * E37)

\* a finite float below -1e38: -3e38
NEG_3E38 == 0 - (30 * E37)

\* content of memory nobody has written yet: an indeterminate value.  Whatever
\* is computed from an indeterminate value is indeterminate.
Undef == 0 - 999999

\* result of 0/0
FNaN == 0 - 999998

\* +infinity: the saturation value of the fixed-point results
FInf == 400 * ONE

\* expf underflows to 0 below about -104 and overflows above about 88
ExpUnderflow == 104

ExpOverflow == 88

ExpM1 == (ONE * 3679) \div 10000

ExpP1 == (ONE * 27183) \div 10000

Sat(v) == IF v > FInf THEN FInf ELSE v

\* Sub(dst, a, b, n), one element
FSub(a, b) == IF a = Undef \/ b = Undef THEN Undef ELSE a - b

\* e^d in fixed point, d a float code
RECURSIVE ExpOf(_)
ExpOf(d) ==
    IF d <= 0 - ExpUnderflow THEN 0
    ELSE IF d > ExpOverflow THEN FInf
    ELSE IF d = 0 THEN ONE
    ELSE IF d < 0 THEN (ExpOf(d + 1) * ExpM1) \div ONE
    ELSE Sat((ExpOf(d - 1) * ExpP1) \div ONE)

\* Exp(dst, src, n), one element
FExp(d) == IF d = Undef THEN Undef ELSE ExpOf(d)

\* Add(dst, a, b, n) and the scalar `totalSum += v`, one element
FAdd(a, b) == IF a = Undef \/ b = Undef THEN Undef ELSE Sat(a + b)

\* Mul(dst, a, b, n), one element (0 * inf is NaN)
FMul(a, b) ==
    IF a = Undef \/ b = Undef THEN Undef
    ELSE IF a = FNaN \/ b = FNaN THEN FNaN
    ELSE IF (a = 0 /\ b = FInf) \/ (a = FInf /\ b = 0) THEN FNaN
    ELSE Sat((a * b) \div ONE)

\* Div(dst, a, b, n), one element
FDiv(a, b) ==
    IF a = Undef \/ b = Undef THEN Undef
    ELSE IF b = 0 THEN (IF a = 0 THEN FNaN ELSE FInf)
    ELSE Sat((a * ONE) \div b)

\* 1.0f / totalSum
FRecip(t) == IF t = 0 THEN FInf ELSE Sat((ONE * ONE) \div t)

\* a tile is a sequence of TILE_LENGTH elements
TileOf(n, v) == [k \in 1 .. n |-> v]

MapTile(Op(_), t) == [k \in 1 .. Len(t) |-> Op(t[k])]

ZipTile(Op(_, _), a, b) == [k \in 1 .. Len(a) |-> Op(a[k], b[k])]

RECURSIVE FoldTile(_, _, _, _)
FoldTile(Op(_, _), acc, t, k) ==
    IF k > Len(t) THEN acc ELSE FoldTile(Op, Op(acc, t[k]), t, k + 1)

\* ReduceSum<float, AR>(tmp, tmpCalc, {1, TILE_LENGTH}, true)
ReduceSum(t) == FoldTile(FAdd, 0, t, 1)

\* `if (val > blockMax) blockMax = val;`
MaxStep(blockMax, val) ==
    IF blockMax = Undef \/ val = Undef THEN Undef
    ELSE IF val > blockMax THEN val ELSE blockMax

\* the j-loop of FindBlockMax over one tile
ScanMax(blockMax, t) == FoldTile(MaxStep, blockMax, t, 1)

\* faulty variant: `totalSum =` for `totalSum +=` on a tile's first element
ScanSum_Restart(totalSum, t) == FoldTile(FAdd, 0, t, 1)

\* the j-loop `totalSum += expLocal.GetValue(j)` over one tile
ScanSum(totalSum, t) == FoldTile(FAdd, totalSum, t, 1)

\* faulty variant: the reciprocal without its guard
Reciprocal_NoGuard(totalSum) == IF totalSum = Undef THEN Undef ELSE FRecip(totalSum)

\* `(totalSum > 0.0f) ? (1.0f / totalSum) : 0.0f`
Reciprocal(totalSum) ==
    IF totalSum = Undef THEN Undef
    ELSE IF totalSum > 0 THEN FRecip(totalSum) ELSE 0

\* cell of global memory, total on every address
ReadCell(mem, a) == IF a \in DOMAIN mem THEN mem[a] ELSE Undef

ReadTile(mem, a, n) == [k \in 1 .. n |-> ReadCell(mem, a + k - 1)]

\* ------------------------------------------------------------------------
\* State
\* ------------------------------------------------------------------------
VARIABLES
    cfg,     \* the build's geometry
    async,   \* TRUE: DataCopy only issues the transfer (NPU build);
             \* FALSE: DataCopy returns with the tile copied (CPU-debug build)
    xGm,     \* device input buffer: address -> float code
    zGm,     \* device output buffer: address -> [v, by, n] (value, last writer,
             \* number of writes)
    unit,    \* per execution unit: the KernelSoftmax object and its position
    host,    \* the host harness: position and the output it copied back
    obs,     \* observation: per unit and pass, how often each input element was
             \* transferred in and each output element transferred out;
             \* the exponentials stored per output element;
             \* whether a compute step read a slot with its fill still in flight
    lay      \* the views Init has established (layout specification)

vars == <<cfg, async, xGm, zGm, unit, host, obs, lay>>

\* ------------------------------------------------------------------------
\* TQue: a pool of BUFFER_NUM slots handed out round-robin, and the queue of
\* enqueued slots
\* ------------------------------------------------------------------------
QueueNames == {"inQ", "expQ", "outQ"}

\* faulty variant: a pool with one slot more than asked for
InitBuffer_Extra(num, len) ==
    [slots |-> [k \in 1 .. (num + 1) |-> [st |-> "free", data |-> TileOf(len, Undef)]],
     cursor |-> 1,
     fifo |-> <<>>]

\* pipe.InitBuffer(queue, num, len * sizeof(float))
InitBuffer(num, len) ==
    [slots |-> [k \in 1 .. num |-> [st |-> "free", data |-> TileOf(len, Undef)]],
     cursor |-> 1,
     fifo |-> <<>>]

NoQueue == InitBuffer(0, 0)

\* the slot AllocTensor hands out next: the first free one from the cursor on
\* (0: the pool is exhausted)
NextFree(q) ==
    LET n == Len(q.slots)
        at(k) == ((q.cursor + k - 2) % n) + 1
        cand == {k \in 1 .. n : q.slots[at(k)].st = "free"}
    IN  IF cand = {} THEN 0
        ELSE at(CHOOSE k \in cand : \A m \in cand : k <= m)

\* queue.AllocTensor<float>()
AllocTensor(q) ==
    LET s == NextFree(q)
    IN  [q EXCEPT !.slots[s].st = "held", !.cursor = (s % Len(q.slots)) + 1]

\* faulty variant: the slot is not returned to the pool
FreeTensor_Leak(q, s) == q

\* queue.FreeTensor(t)
FreeTensor(q, s) == [q EXCEPT !.slots[s].st = "free"]

\* queue.EnQue(t)
EnQue(q, s) == [q EXCEPT !.fifo = Append(@, s)]

\* queue.DeQue<float>(): the slot handed over
DeQueSlot(q) == Head(q.fifo)

DeQue(q) == [q EXCEPT !.fifo = Tail(@)]

SetData(q, s, t) == [q EXCEPT !.slots[s].data = t]

\* transfers a unit has issued and that have not completed, per pipe, in order
Filling(ur, qn, s) == \E k \in 1 .. Len(ur.mte2) : ur.mte2[k].q = qn /\ ur.mte2[k].s = s

Draining(ur, qn, s) == \E k \in 1 .. Len(ur.mte3) : ur.mte3[k].q = qn /\ ur.mte3[k].s = s

\* AllocTensor returns once the pool has a free slot whose outgoing transfer,
\* if FreeTensor followed one, has completed
CanAlloc(ur, qn) ==
    /\ NextFree(ur[qn]) # 0
    /\ ~Draining(ur, qn, NextFree(ur[qn]))

\* DeQue returns once a slot is enqueued and the transfer filling it has completed
CanDeQue(ur, qn) ==
    /\ Len(ur[qn].fifo) > 0
    /\ ~Filling(ur, qn, DeQueSlot(ur[qn]))

\* number of slots of a queue acquired and not released
Acquired(q) == Cardinality({k \in 1 .. Len(q.slots) : q.slots[k].st = "held"})

\* ------------------------------------------------------------------------
\* Global memory
\* ------------------------------------------------------------------------
EmptyOut(g) == [a \in Addrs(g) |-> [v |-> Undef, by |-> "none", n |-> 0]]

ZVals(mem) == [a \in DOMAIN mem |-> mem[a].v]

\* DataCopy(zGm[off], local, n) landing in global memory
WriteTile(mem, addr, t, by) ==
    [a \in DOMAIN mem |->
        IF a >= addr /\ a < addr + Len(t)
        THEN [v |-> t[a - addr + 1], by |-> by, n |-> mem[a].n + 1]
        ELSE mem[a]]

TileAddrs(addr, n) == addr .. (addr + n - 1)

\* ------------------------------------------------------------------------
\* KernelSoftmax::Init: the global views of unit idx
\* ------------------------------------------------------------------------
InitViews(g, idx) ==
    [xBase |-> BaseOffset(g, idx), zBase |-> BaseOffset(g, idx), len |-> ViewLength(g)]

\* ------------------------------------------------------------------------
\* Layout specification: the launch runs Init for unit 0, 1, ... of a build
\* (the shipped builds included) and records the views it establishes
\* ------------------------------------------------------------------------
LayoutGeoms == {ShippedA, ShippedB} \cup ModelGeoms

IdleLay == [g |-> ShippedA, views |-> <<>>]

IdleExec ==
    /\ cfg = ShippedA
    /\ async = FALSE
    /\ xGm = <<>>
    /\ zGm = <<>>
    /\ unit = <<>>
    /\ host = [pc |-> "off", out |-> <<>>]
    /\ obs = <<>>

LayInit ==
    /\ IdleExec
    /\ \E g \in LayoutGeoms : lay = [g |-> g, views |-> <<>>]

\* Init of the next unit index: views[k] is the view of unit k-1
LayKernelInit ==
    /\ Len(lay.views) < lay.g.blockDim
    /\ lay' = [lay EXCEPT !.views = Append(@, InitViews(lay.g, Len(lay.views)))]
    /\ UNCHANGED <<cfg, async, xGm, zGm, unit, host, obs>>

LayNext == LayKernelInit

SpecLayout == LayInit /\ [][LayNext]_vars

\* the region of the unit whose view is v: RegionSize elements from its base
LayLo(v) == v.xBase

LayHi(v) == v.xBase + RegionSize(lay.g) - 1

\* C1: the regions Init assigns to two distinct units do not overlap, and once
\* every launched unit has run Init the regions cover [0, TOTAL_LENGTH) exactly:
\* every address lies in some region and no region leaves the buffer.
C1_RegionsPartition ==
    LET vs == lay.views
        n == Len(vs)
    IN  /\ \A i \in 1 .. n : \A j \in 1 .. n :
            i # j => (LayHi(vs[i]) < LayLo(vs[j]) \/ LayHi(vs[j]) < LayLo(vs[i]))
        /\ \A i \in 1 .. n : vs[i].zBase = vs[i].xBase
        /\ n = lay.g.blockDim =>
            /\ \A a \in Addrs(lay.g) :
                \E i \in 1 .. n : LayLo(vs[i]) <= a /\ a <= LayHi(vs[i])
            /\ \A i \in 1 .. n :
                LayLo(vs[i]) >= 0 /\ LayHi(vs[i]) < TOTAL_LENGTH(lay.g)

\* every unit of the shipped 96-unit build has its view, the last one ending
\* at the last element of the buffer
C1_Witness ==
    /\ lay.g = ShippedB
    /\ Len(lay.views) = USE_CORE_NUM
    /\ LayHi(lay.views[USE_CORE_NUM]) = TOTAL_LENGTH(ShippedB) - 1

\* C11 (as stated): in the shipped builds the views Init establishes for a
\* unit start at region_size * idx, their declared length is region_size, and
\* they end inside the TOTAL_LENGTH-element buffer.
C11_ViewIsRegion ==
    lay.g \in {ShippedA, ShippedB} =>
        \A k \in 1 .. Len(lay.views) :
            LET v == lay.views[k]
            IN  /\ v.xBase = RegionSize(lay.g) * (k - 1)
                /\ v.zBase = RegionSize(lay.g) * (k - 1)
                /\ v.len = RegionSize(lay.g)
                /\ v.xBase + v.len <= TOTAL_LENGTH(lay.g)

\* ------------------------------------------------------------------------
\* Configuration specification: the same launch for every setting of the
\* compile-time constants within the bounds, divisible or not.  Neither the
\* headers nor main test the constants, so nothing stands between a setting
\* and the launch.
\* ------------------------------------------------------------------------
ConfigGeoms ==
    {ShippedA, ShippedB} \cup
    {g \in [variant : {"A", "B"}, size : 1 .. MaxSize, cores : 1 .. MaxUnits,
            tileNum : {TILE_NUM_A, TILE_NUM_B}, bufferNum : {BUFFER_NUM},
            blockDim : 1 .. MaxUnits] :
        /\ g.blockDim = g.cores
        /\ g.variant = "A" => g.tileNum = TILE_NUM_A
        /\ g.variant = "B" => g.tileNum = TILE_NUM_B}

CfgInit ==
    /\ IdleExec
    /\ \E g \in ConfigGeoms : lay = [g |-> g, views |-> <<>>]

SpecConfig == CfgInit /\ [][LayNext]_vars

\* the divisibility a configuration has to satisfy
Divisible(g) ==
    /\ TOTAL_LENGTH(g) % g.cores = 0
    /\ (TOTAL_LENGTH(g) \div g.cores) % (g.tileNum * g.bufferNum) = 0

\* C12 (as stated): no execution unit starts running (runs Init) under a
\* configuration whose TOTAL_LENGTH is not divisible by the unit count or
\* whose per-unit length is not divisible by TILE_NUM * BUFFER_NUM.
C12_NoRunUndivisible == Len(lay.views) > 0 => Divisible(lay.g)

\* ------------------------------------------------------------------------
\* Execution: initial state
\* ------------------------------------------------------------------------
\* a KernelSoftmax object before Init, on a unit the host has not launched
IdleUnit ==
    [pc |-> "Idle", row |-> 0, i |-> 0,
     xBase |-> 0, zBase |-> 0, viewLen |-> 0,
     inQ |-> NoQueue, expQ |-> NoQueue, outQ |-> NoQueue,
     hIn |-> 0, hExp |-> 0, hOut |-> 0,
     tmpCalc |-> <<>>, tmp |-> <<>>,
     blockMax |-> 0, totalSum |-> 0, reciprocal |-> 0,
     mte2 |-> <<>>, mte3 |-> <<>>]

\* input matrices.  A (inputs bounded, as its contract requires): every row
\* is constant 0 or 1, or alternates from that value.  B: any matrix over
\* -3e38, -1e38, 0, 1.
ValsA == {0, 1}

ValsB == {NEG_3E38, NEG_1E38, 0, 1}

InputsA(g) ==
    {[a \in Addrs(g) |->
        IF alt THEN (rv[a \div g.size] + (a % g.size)) % 2 ELSE rv[a \div g.size]] :
        rv \in [0 .. (g.size - 1) -> ValsA], alt \in BOOLEAN}

InputsB(g) == [Addrs(g) -> ValsB]

Inputs(g) == IF g.variant = "A" THEN InputsA(g) ELSE InputsB(g)

\* the inputs of the asynchronous specification: one matrix per build
AsyncInputs(g) == {[a \in Addrs(g) |-> (a + (a \div g.size)) % 2]}

\* the transfer counters before the launch
\* (inbound passes 1 and 2 read the input; 3 is Normalize reading the stored
\* exponentials back from the output)
NoReads(g) == [u \in Units(g) |-> [p \in 1 .. 3 |-> [a \in Addrs(g) |-> 0]]]

\* what ComputeExpSumAndStore has stored per output element, before any store
NoStored(g) == [a \in Addrs(g) |-> Undef]

InitWith(g, isAsync, x) ==
    /\ cfg = g
    /\ async = isAsync
    /\ xGm = x
    /\ zGm = EmptyOut(g)
    /\ unit = [u \in Units(g) |-> IdleUnit]
    /\ host = [pc |-> "start", out |-> <<>>]
    /\ obs = [reads |-> NoReads(g), writes |-> NoReads(g), stored |-> NoStored(g),
              raced |-> FALSE, oob |-> FALSE]
    /\ lay = IdleLay

Init == \E g \in ModelGeoms : \E x \in Inputs(g) : InitWith(g, FALSE, x)

InitAsync == \E g \in ModelGeoms : \E x \in AsyncInputs(g) : InitWith(g, TRUE, x)

\* ------------------------------------------------------------------------
\* Host harness
\* ------------------------------------------------------------------------
\* the kernel of unit u has returned and its transfers have landed
UnitDone(ur) == ur.pc = "Done" /\ ur.mte2 = <<>> /\ ur.mte3 = <<>>

\* faulty variant: the stream is not synchronised before the copy back
AllUnitsDone_NoSync == TRUE

\* aclrtSynchronizeStream / the return of ICPU_RUN_KF
AllUnitsDone == \A u \in DOMAIN unit : UnitDone(unit[u])

\* softmax_custom_do(blockDim, ...) / ICPU_RUN_KF(softmax_custom, blockDim, ...)
HostLaunch ==
    /\ host.pc = "start"
    /\ host' = [host EXCEPT !.pc = "launched"]
    /\ unit' = [u \in DOMAIN unit |-> [unit[u] EXCEPT !.pc = "Init"]]
    /\ UNCHANGED <<cfg, async, xGm, zGm, obs, lay>>

HostSynchronize ==
    /\ host.pc = "launched"
    /\ AllUnitsDone
    /\ host' = [host EXCEPT !.pc = "synced"]
    /\ UNCHANGED <<cfg, async, xGm, zGm, unit, obs, lay>>

\* aclrtMemcpy(..., ACL_MEMCPY_DEVICE_TO_HOST) / WriteFile of the output buffer
HostCopyBack ==
    /\ host.pc = "synced"
    /\ host' = [pc |-> "done", out |-> ZVals(zGm)]
    /\ UNCHANGED <<cfg, async, xGm, zGm, unit, obs, lay>>

\* ------------------------------------------------------------------------
\* DataCopy
\* ------------------------------------------------------------------------
\* DataCopy(local, gm[off], n): issue on the inbound pipe, or copy at once
IssueIn(ur, qn, s, mem, addr, tileNow) ==
    IF async
    THEN [ur EXCEPT !.mte2 = Append(@, [q |-> qn, s |-> s, mem |-> mem, addr |-> addr])]
    ELSE [ur EXCEPT ![qn] = SetData(@, s, tileNow)]

\* DataCopy(gm[off], local, n): issue on the outbound pipe (the copy at once
\* is the action's write to zGm)
IssueOut(ur, qn, s, addr, by) ==
    IF async
    THEN [ur EXCEPT !.mte3 = Append(@, [q |-> qn, s |-> s, addr |-> addr, by |-> by])]
    ELSE ur

OutNow(mem, addr, t, by) == IF async THEN mem ELSE WriteTile(mem, addr, t, by)

\* the transfer of n input elements from addr counted for unit u, pass p
CountReads(o, u, p, addr, n) ==
    [o EXCEPT !.reads[u][p] =
        [a \in DOMAIN @ |-> IF a \in TileAddrs(addr, n) THEN @[a] + 1 ELSE @[a]],
     !.oob = @ \/ ~(TileAddrs(addr, n) \subseteq DOMAIN xGm)]

\* the transfer of n output elements to addr counted for unit u, store p
\* (Variant A: 1 CopyOut; Variant B: 1 ComputeExpSumAndStore, 2 Normalize)
NoteWrite(o, u, p, addr, n) ==
    [o EXCEPT !.writes[u][p] =
        [a \in DOMAIN @ |-> IF a \in TileAddrs(addr, n) THEN @[a] + 1 ELSE @[a]],
     !.oob = @ \/ ~(TileAddrs(addr, n) \subseteq DOMAIN zGm)]

NoteRace(o, raced) == [o EXCEPT !.raced = @ \/ raced]

\* the exponentials of tile t noted as what DataCopy(zGm[addr], expLocal, n) stores
NoteStored(o, addr, t) ==
    [o EXCEPT !.stored =
        [a \in DOMAIN @ |->
            IF a >= addr /\ a < addr + Len(t) THEN t[a - addr + 1] ELSE @[a]]]

\* the inbound transfer at the head of unit u's pipe completes
MTE2Done(u) ==
    /\ u \in DOMAIN unit
    /\ Len(unit[u].mte2) > 0
    /\ LET tr == Head(unit[u].mte2)
           src == IF tr.mem = "x" THEN xGm ELSE ZVals(zGm)
           t == ReadTile(src, tr.addr, TILE_LENGTH(cfg))
       IN  unit' = [unit EXCEPT ![u] =
                [@ EXCEPT !.mte2 = Tail(@), ![tr.q] = SetData(@, tr.s, t)]]
    /\ UNCHANGED <<cfg, async, xGm, zGm, host, obs, lay>>

\* the outbound transfer at the head of unit u's pipe completes
MTE3Done(u) ==
    /\ u \in DOMAIN unit
    /\ Len(unit[u].mte3) > 0
    /\ LET tr == Head(unit[u].mte3)
       IN  /\ zGm' = WriteTile(zGm, tr.addr, unit[u][tr.q].slots[tr.s].data, tr.by)
           /\ unit' = [unit EXCEPT ![u].mte3 = Tail(@)]
    /\ UNCHANGED <<cfg, async, xGm, host, obs, lay>>

\* ------------------------------------------------------------------------
\* Kernel entry, both variants: softmax_custom runs op.Init, then op.Process
\* ------------------------------------------------------------------------
\* where Process starts
FirstPc(g) ==
    IF g.variant = "B" THEN "FindMaxCopy"
    ELSE IF ROWS_PER_BLOCK(g) > 0 THEN "Duplicate" ELSE "Done"

\* the queues Init creates: A has inQueueX and outQueueZ, B also expQueue
InitQueues(g, ur) ==
    [ur EXCEPT
        !.inQ = InitBuffer(g.bufferNum, TILE_LENGTH(g)),
        !.outQ = InitBuffer(g.bufferNum, TILE_LENGTH(g)),
        !.expQ = IF g.variant = "B"
                 THEN InitBuffer(g.bufferNum, TILE_LENGTH(g)) ELSE NoQueue,
        !.tmpCalc = IF g.variant = "A" THEN TileOf(TILE_LENGTH(g), Undef) ELSE <<>>,
        !.tmp = IF g.variant = "A" THEN TileOf(TILE_LENGTH(g), Undef) ELSE <<>>]

KernelInit(u) ==
    /\ u \in DOMAIN unit
    /\ unit[u].pc = "Init"
    /\ LET v == InitViews(cfg, u)
           ur == [unit[u] EXCEPT !.xBase = v.xBase, !.zBase = v.zBase,
                                 !.viewLen = v.len, !.pc = FirstPc(cfg)]
       IN  unit' = [unit EXCEPT ![u] = InitQueues(cfg, ur)]
    /\ UNCHANGED <<cfg, async, xGm, zGm, host, obs, lay>>

\* ------------------------------------------------------------------------
\* Variant A: KernelSoftmax::Process and its steps
\* ------------------------------------------------------------------------
\* faulty variant: the row offset left out of the tile address
TileOffsetA_NoRow(g, row, progress) == progress * TILE_LENGTH(g)

\* `row_offset + progress * TILE_LENGTH`, with row_offset = row * BLOCK_LENGTH
TileOffsetA(g, row, progress) == row * BLOCK_LENGTH(g) + progress * TILE_LENGTH(g)

\* faulty variant: the accumulator is not zeroed at the start of a row
A_Duplicate_Skip(u) ==
    /\ u \in DOMAIN unit
    /\ cfg.variant = "A"
    /\ unit[u].pc = "Duplicate"
    /\ unit' = [unit EXCEPT ![u] = [@ EXCEPT !.i = 0, !.pc = "CopyIn1"]]
    /\ UNCHANGED <<cfg, async, xGm, zGm, host, obs, lay>>

\* AscendC::Duplicate(tmpCalc, 0.0f, TILE_LENGTH) at the top of the row loop
A_Duplicate(u) ==
    /\ u \in DOMAIN unit
    /\ cfg.variant = "A"
    /\ unit[u].pc = "Duplicate"
    /\ unit' = [unit EXCEPT ![u] =
            [@ EXCEPT !.tmpCalc = TileOf(TILE_LENGTH(cfg), 0), !.i = 0, !.pc = "CopyIn1"]]
    /\ UNCHANGED <<cfg, async, xGm, zGm, host, obs, lay>>

\* CopyIn(i, row_offset): AllocTensor, DataCopy, EnQue
A_CopyIn(u) ==
    /\ u \in DOMAIN unit
    /\ cfg.variant = "A"
    /\ unit[u].pc \in {"CopyIn1", "CopyIn2"}
    /\ CanAlloc(unit[u], "inQ")
    /\ LET ur == unit[u]
           pass == IF ur.pc = "CopyIn1" THEN 1 ELSE 2
           s == NextFree(ur.inQ)
           addr == ur.xBase + TileOffsetA(cfg, ur.row, ur.i)
           u1 == [ur EXCEPT !.inQ = EnQue(AllocTensor(@), s),
                            !.pc = IF pass = 1 THEN "ComputeSum" ELSE "ComputeSoftmax"]
       IN  /\ unit' = [unit EXCEPT ![u] =
                    IssueIn(u1, "inQ", s, "x", addr, ReadTile(xGm, addr, TILE_LENGTH(cfg)))]
           /\ obs' = CountReads(obs, u, pass, addr, TILE_LENGTH(cfg))
    /\ UNCHANGED <<cfg, async, xGm, zGm, host, lay>>

\* ComputeSum(i): DeQue, Exp in place, Add into tmpCalc, FreeTensor
A_ComputeSum(u) ==
    /\ u \in DOMAIN unit
    /\ cfg.variant = "A"
    /\ unit[u].pc = "ComputeSum"
    /\ CanDeQue(unit[u], "inQ")
    /\ LET ur == unit[u]
           s == DeQueSlot(ur.inQ)
           e == MapTile(FExp, ur.inQ.slots[s].data)
           last == ur.i + 1 >= TilesPerPass(cfg)
       IN  unit' = [unit EXCEPT ![u] =
                [ur EXCEPT !.inQ = FreeTensor(SetData(DeQue(@), s, e), s),
                           !.tmpCalc = ZipTile(FAdd, @, e),
                           !.i = @ + 1,
                           !.pc = IF last THEN "Reduce" ELSE "CopyIn1"]]
    /\ UNCHANGED <<cfg, async, xGm, zGm, host, obs, lay>>

\* ReduceSum(tmp, tmpCalc, {1, TILE_LENGTH}, true), then
\* Broadcast(tmpCalc, tmp, {TILE_LENGTH}, {1})
A_Reduce(u) ==
    /\ u \in DOMAIN unit
    /\ cfg.variant = "A"
    /\ unit[u].pc = "Reduce"
    /\ LET ur == unit[u]
           sum == ReduceSum(ur.tmpCalc)
       IN  unit' = [unit EXCEPT ![u] =
                [ur EXCEPT !.tmp = [@ EXCEPT ![1] = sum],
                           !.tmpCalc = TileOf(TILE_LENGTH(cfg), sum),
                           !.i = 0,
                           !.pc = "CopyIn2"]]
    /\ UNCHANGED <<cfg, async, xGm, zGm, host, obs, lay>>

\* ComputeSoftmax(i): DeQue x, AllocTensor z, Exp, Div by tmpCalc, EnQue z,
\* FreeTensor x
A_ComputeSoftmax(u) ==
    /\ u \in DOMAIN unit
    /\ cfg.variant = "A"
    /\ unit[u].pc = "ComputeSoftmax"
    /\ CanDeQue(unit[u], "inQ")
    /\ CanAlloc(unit[u], "outQ")
    /\ LET ur == unit[u]
           s == DeQueSlot(ur.inQ)
           zs == NextFree(ur.outQ)
           e == MapTile(FExp, ur.inQ.slots[s].data)
           z == ZipTile(FDiv, e, ur.tmpCalc)
       IN  unit' = [unit EXCEPT ![u] =
                [ur EXCEPT !.inQ = FreeTensor(SetData(DeQue(@), s, e), s),
                           !.outQ = EnQue(SetData(AllocTensor(@), zs, z), zs),
                           !.pc = "CopyOut"]]
    /\ UNCHANGED <<cfg, async, xGm, zGm, host, obs, lay>>

\* where the row loop goes after CopyOut of tile i of row `row`
AfterCopyOut(g, ur) ==
    IF ur.i + 1 < TilesPerPass(g) THEN [ur EXCEPT !.i = @ + 1, !.pc = "CopyIn2"]
    ELSE IF ur.row + 1 < ROWS_PER_BLOCK(g)
         THEN [ur EXCEPT !.i = @ + 1, !.row = @ + 1, !.pc = "Duplicate"]
         ELSE [ur EXCEPT !.i = @ + 1, !.row = @ + 1, !.pc = "Done"]

\* CopyOut(i, row_offset): DeQue z, DataCopy to zGm, FreeTensor
A_CopyOut(u) ==
    /\ u \in DOMAIN unit
    /\ cfg.variant = "A"
    /\ unit[u].pc = "CopyOut"
    /\ CanDeQue(unit[u], "outQ")
    /\ LET ur == unit[u]
           s == DeQueSlot(ur.outQ)
           addr == ur.zBase + TileOffsetA(cfg, ur.row, ur.i)
           u1 == [ur EXCEPT !.outQ = FreeTensor(DeQue(@), s)]
       IN  /\ unit' = [unit EXCEPT ![u] =
                    AfterCopyOut(cfg, IssueOut(u1, "outQ", s, addr, "out"))]
           /\ zGm' = OutNow(zGm, addr, ur.outQ.slots[s].data, "out")
           /\ obs' = NoteWrite(obs, u, 1, addr, TILE_LENGTH(cfg))
    /\ UNCHANGED <<cfg, async, xGm, host, lay>>

\* ------------------------------------------------------------------------
\* Variant B: FindBlockMax, ComputeExpSumAndStore, Normalize
\* ------------------------------------------------------------------------
\* faulty variant: every iteration addresses tile 0
TileOffsetB_NoIndex(g, i) == 0

\* `i * TILE_LENGTH`
TileOffsetB(g, i) == i * TILE_LENGTH(g)

\* faulty variant: the pass is left after its first tile
NextTile_EarlyExit(g, ur, again, after) == [ur EXCEPT !.i = 0, !.pc = after]

\* the loop `for (i = 0; i < TILE_NUM * BUFFER_NUM; i++)` of a pass: stay in
\* the pass (at its copy step) or fall through to what follows it
NextTile(g, ur, again, after) ==
    IF ur.i + 1 < TilesPerPass(g)
    THEN [ur EXCEPT !.i = @ + 1, !.pc = again]
    ELSE [ur EXCEPT !.i = 0, !.pc = after]

\* FindBlockMax, first half of an iteration: (i = 0: blockMax = -1e38f;)
\* AllocTensor, DataCopy
B_FindMaxCopy(u) ==
    /\ u \in DOMAIN unit
    /\ cfg.variant = "B"
    /\ unit[u].pc = "FindMaxCopy"
    /\ CanAlloc(unit[u], "inQ")
    /\ LET ur == unit[u]
           s == NextFree(ur.inQ)
           addr == ur.xBase + TileOffsetB(cfg, ur.i)
           u1 == [ur EXCEPT !.blockMax = IF ur.i = 0 THEN NEG_1E38 ELSE @,
                            !.inQ = AllocTensor(@),
                            !.hIn = s,
                            !.pc = "FindMaxScan"]
       IN  /\ unit' = [unit EXCEPT ![u] =
                    IssueIn(u1, "inQ", s, "x", addr, ReadTile(xGm, addr, TILE_LENGTH(cfg)))]
           /\ obs' = CountReads(obs, u, 1, addr, TILE_LENGTH(cfg))
    /\ UNCHANGED <<cfg, async, xGm, zGm, host, lay>>

\* FindBlockMax, second half: the GetValue loop over the tile, FreeTensor; after
\* the last tile the maximum is returned and ComputeExpSumAndStore begins
B_FindMaxScan(u) ==
    /\ u \in DOMAIN unit
    /\ cfg.variant = "B"
    /\ unit[u].pc = "FindMaxScan"
    /\ LET ur == unit[u]
           t == ur.inQ.slots[ur.hIn].data
       IN   /\ unit' = [unit EXCEPT ![u] =
                    NextTile(cfg,
                        [ur EXCEPT !.blockMax = ScanMax(@, t),
                                   !.inQ = FreeTensor(@, ur.hIn),
                                   !.hIn = 0],
                        "FindMaxCopy", "ExpSumCopy")]
            /\ obs' = NoteRace(obs, Filling(ur, "inQ", ur.hIn))
    /\ UNCHANGED <<cfg, async, xGm, zGm, host, lay>>

\* ComputeExpSumAndStore, first half: (i = 0: totalSum = 0;) three AllocTensor,
\* DataCopy of the input tile
B_ExpSumCopy(u) ==
    /\ u \in DOMAIN unit
    /\ cfg.variant = "B"
    /\ unit[u].pc = "ExpSumCopy"
    /\ CanAlloc(unit[u], "inQ")
    /\ CanAlloc(unit[u], "expQ")
    /\ CanAlloc(unit[u], "outQ")
    /\ LET ur == unit[u]
           s == NextFree(ur.inQ)
           addr == ur.xBase + TileOffsetB(cfg, ur.i)
           u1 == [ur EXCEPT !.totalSum = IF ur.i = 0 THEN 0 ELSE @,
                            !.inQ = AllocTensor(@), !.hIn = s,
                            !.expQ = AllocTensor(@), !.hExp = NextFree(ur.expQ),
                            !.outQ = AllocTensor(@), !.hOut = NextFree(ur.outQ),
                            !.pc = "ExpSumStore"]
       IN  /\ unit' = [unit EXCEPT ![u] =
                    IssueIn(u1, "inQ", s, "x", addr, ReadTile(xGm, addr, TILE_LENGTH(cfg)))]
           /\ obs' = CountReads(obs, u, 2, addr, TILE_LENGTH(cfg))
    /\ UNCHANGED <<cfg, async, xGm, zGm, host, lay>>

\* ComputeExpSumAndStore, second half: SetValue loop (broadcast of blockMax),
\* Sub, Exp, the sum loop, DataCopy of the exponentials to zGm, three FreeTensor
B_ExpSumStore(u) ==
    /\ u \in DOMAIN unit
    /\ cfg.variant = "B"
    /\ unit[u].pc = "ExpSumStore"
    /\ LET ur == unit[u]
           addr == ur.zBase + TileOffsetB(cfg, ur.i)
           x == ur.inQ.slots[ur.hIn].data
       IN   LET work == TileOf(TILE_LENGTH(cfg), ur.blockMax)
                e == MapTile(FExp, ZipTile(FSub, x, work))
                u1 == [ur EXCEPT !.totalSum = ScanSum(@, e),
                                 !.outQ = FreeTensor(SetData(@, ur.hOut, work), ur.hOut),
                                 !.expQ = FreeTensor(SetData(@, ur.hExp, e), ur.hExp),
                                 !.inQ = FreeTensor(@, ur.hIn),
                                 !.hIn = 0, !.hExp = 0, !.hOut = 0]
            IN  /\ unit' = [unit EXCEPT ![u] =
                        NextTile(cfg, IssueOut(u1, "expQ", ur.hExp, addr, "exp"),
                                 "ExpSumCopy", "NormCopy")]
                /\ zGm' = OutNow(zGm, addr, e, "exp")
                /\ obs' = NoteStored(
                              NoteWrite(NoteRace(obs, Filling(ur, "inQ", ur.hIn)),
                                        u, 1, addr, TILE_LENGTH(cfg)),
                              addr, e)
    /\ UNCHANGED <<cfg, async, xGm, host, lay>>

\* Normalize, first half: (i = 0: the guarded reciprocal;) three AllocTensor,
\* DataCopy of the stored exponentials from zGm
B_NormCopy(u) ==
    /\ u \in DOMAIN unit
    /\ cfg.variant = "B"
    /\ unit[u].pc = "NormCopy"
    /\ CanAlloc(unit[u], "expQ")
    /\ CanAlloc(unit[u], "outQ")
    /\ CanAlloc(unit[u], "inQ")
    /\ LET ur == unit[u]
           s == NextFree(ur.expQ)
           addr == ur.zBase + TileOffsetB(cfg, ur.i)
           u1 == [ur EXCEPT !.reciprocal = IF ur.i = 0 THEN Reciprocal(ur.totalSum) ELSE @,
                            !.expQ = AllocTensor(@), !.hExp = s,
                            !.outQ = AllocTensor(@), !.hOut = NextFree(ur.outQ),
                            !.inQ = AllocTensor(@), !.hIn = NextFree(ur.inQ),
                            !.pc = "NormStore"]
       IN  /\ unit' = [unit EXCEPT ![u] =
                    IssueIn(u1, "expQ", s, "z", addr,
                            ReadTile(ZVals(zGm), addr, TILE_LENGTH(cfg)))]
           /\ obs' = CountReads(obs, u, 3, addr, TILE_LENGTH(cfg))
    /\ UNCHANGED <<cfg, async, xGm, zGm, host, lay>>

\* Normalize, second half: SetValue loop (broadcast of the reciprocal), Mul,
\* DataCopy of the result to zGm, three FreeTensor
B_NormStore(u) ==
    /\ u \in DOMAIN unit
    /\ cfg.variant = "B"
    /\ unit[u].pc = "NormStore"
    /\ LET ur == unit[u]
           addr == ur.zBase + TileOffsetB(cfg, ur.i)
           e == ur.expQ.slots[ur.hExp].data
       IN   LET bc == TileOf(TILE_LENGTH(cfg), ur.reciprocal)
                z == ZipTile(FMul, e, bc)
                u1 == [ur EXCEPT !.inQ = FreeTensor(SetData(@, ur.hIn, bc), ur.hIn),
                                 !.outQ = FreeTensor(SetData(@, ur.hOut, z), ur.hOut),
                                 !.expQ = FreeTensor(@, ur.hExp),
                                 !.hIn = 0, !.hExp = 0, !.hOut = 0]
            IN  /\ unit' = [unit EXCEPT ![u] =
                        NextTile(cfg, IssueOut(u1, "outQ", ur.hOut, addr, "norm"),
                                 "NormCopy", "Done")]
                /\ zGm' = OutNow(zGm, addr, z, "norm")
                /\ obs' = NoteWrite(NoteRace(obs, Filling(ur, "expQ", ur.hExp)),
                                    u, 2, addr, TILE_LENGTH(cfg))
    /\ UNCHANGED <<cfg, async, xGm, host, lay>>

\* ------------------------------------------------------------------------
\* Specifications
\* ------------------------------------------------------------------------
UnitIds == 0 .. (MaxUnits - 1)

Next ==
    \/ HostLaunch
    \/ HostSynchronize
    \/ HostCopyBack
    \/ \E u \in UnitIds : KernelInit(u)
    \/ \E u \in UnitIds : A_Duplicate(u)
    \/ \E u \in UnitIds : A_CopyIn(u)
    \/ \E u \in UnitIds : A_ComputeSum(u)
    \/ \E u \in UnitIds : A_Reduce(u)
    \/ \E u \in UnitIds : A_ComputeSoftmax(u)
    \/ \E u \in UnitIds : A_CopyOut(u)
    \/ \E u \in UnitIds : B_FindMaxCopy(u)
    \/ \E u \in UnitIds : B_FindMaxScan(u)
    \/ \E u \in UnitIds : B_ExpSumCopy(u)
    \/ \E u \in UnitIds : B_ExpSumStore(u)
    \/ \E u \in UnitIds : B_NormCopy(u)
    \/ \E u \in UnitIds : B_NormStore(u)

NextAsync ==
    \/ Next
    \/ \E u \in UnitIds : MTE2Done(u)
    \/ \E u \in UnitIds : MTE3Done(u)

\* statement-level interleaving of the units, every DataCopy complete on return
Spec == Init /\ [][Next]_vars

\* both builds: the one above, and the one whose DataCopy is asynchronous on
\* in-order inbound and outbound pipes
InitBuilds == Init \/ InitAsync

SpecBuilds == InitBuilds /\ [][NextAsync]_vars

\* everything the kernel of unit u executes, Init and Process
UnitStep(u) ==
    \/ KernelInit(u)
    \/ A_Duplicate(u)
    \/ A_CopyIn(u)
    \/ A_ComputeSum(u)
    \/ A_Reduce(u)
    \/ A_ComputeSoftmax(u)
    \/ A_CopyOut(u)
    \/ B_FindMaxCopy(u)
    \/ B_FindMaxScan(u)
    \/ B_ExpSumCopy(u)
    \/ B_ExpSumStore(u)
    \/ B_NormCopy(u)
    \/ B_NormStore(u)

\* the smallest Variant B build run by a single unit
OneUnitB ==
    [variant |-> "B", size |-> TILE_NUM_B * BUFFER_NUM, cores |-> 1,
     tileNum |-> TILE_NUM_B, bufferNum |-> BUFFER_NUM, blockDim |-> 1]

\* the builds of the fair specification: every model build with DataCopy
\* complete on return; with asynchronous DataCopy the Variant A builds and the
\* single-unit Variant B build (units share no queue, pipe or slot)
FairBuilds ==
    {<<g, FALSE>> : g \in ModelGeoms}
        \cup {<<g, TRUE>> : g \in {h \in ModelGeoms : h.variant = "A"}}
        \cup {<<OneUnitB, TRUE>>}

\* one input matrix per build
InitFair ==
    \E b \in FairBuilds : \E x \in AsyncInputs(b[1]) : InitWith(b[1], b[2], x)

\* the launch gives every unit a core of its own (blockDim does not exceed the
\* core count): a unit with a step to take or a queued transfer on one of its
\* pipes makes progress; the host thread runs on
Fairness ==
    /\ WF_vars(HostLaunch \/ HostSynchronize \/ HostCopyBack)
    /\ \A u \in UnitIds : WF_vars(UnitStep(u) \/ MTE2Done(u) \/ MTE3Done(u))

SpecFair == InitFair /\ [][NextAsync]_vars /\ Fairness

\* ------------------------------------------------------------------------
\* Properties
\* ------------------------------------------------------------------------
Finished(u) == unit[u].pc = "Done" /\ unit[u].mte2 = <<>> /\ unit[u].mte3 = <<>>

AllFinished == host.pc # "start" /\ \A u \in DOMAIN unit : Finished(u)

\* the per-unit phase of Variant B a program position belongs to
PhaseRank(pc) ==
    CASE pc = "Idle" -> 0
      [] pc = "Init" -> 1
      [] pc \in {"FindMaxCopy", "FindMaxScan"} -> 2
      [] pc \in {"ExpSumCopy", "ExpSumStore"} -> 3
      [] pc \in {"NormCopy", "NormStore"} -> 4
      [] pc = "Done" -> 5
      [] OTHER -> 0 - 1

\* the true maximum and the elements of a unit's input region
RegionMax(u) ==
    LET r == Region(cfg, u)
    IN  CHOOSE m \in {xGm[a] : a \in r} : \A a \in r : xGm[a] <= m

\* C2 (as stated): under asynchronous transfers no compute step reads a slot
\* whose inbound fill is still in flight, and no slot is handed out again while
\* its outbound drain is still in flight, in either variant.
C2_SlotDiscipline ==
    /\ obs.raced = FALSE
    /\ \A u \in DOMAIN unit : \A qn \in QueueNames :
          \A s \in 1 .. Len(unit[u][qn].slots) :
              Draining(unit[u], qn, s) => unit[u][qn].slots[s].st = "free"

\* C3: in Variant B a unit moves through Init, FindMax, ExpSumStore, Normalize,
\* Done in exactly that order, one phase at a time and never backwards, and it
\* leaves a tile-processing phase only when that phase has handled every one
\* of the TILE_NUM * BUFFER_NUM tiles of its region.
C3_Step ==
    cfg.variant = "B" =>
        \A u \in DOMAIN unit :
            LET p == PhaseRank(unit[u].pc)
                q == PhaseRank(unit'[u].pc)
            IN  /\ p >= 0 /\ q >= 0
                /\ q # p =>
                     /\ q = p + 1
                     /\ p \in {2, 3, 4} => unit[u].i = TilesPerPass(cfg) - 1
                     /\ p = 2 => \A a \in Region(cfg, u) : obs'.reads[u][1][a] = 1
                     /\ p = 3 => \A a \in Region(cfg, u) :
                                    /\ obs'.reads[u][2][a] = 1
                                    /\ obs'.writes[u][1][a] = 1
                                    /\ obs'.writes[u][2][a] = 0
                     /\ p = 4 => \A a \in Region(cfg, u) : obs'.writes[u][2][a] = 1

C3_PhaseOrder == [][C3_Step]_vars

C3_Witness ==
    /\ cfg.variant = "B"
    /\ async
    /\ \E u \in DOMAIN unit, w \in DOMAIN unit :
          unit[u].pc = "Done" /\ PhaseRank(unit[w].pc) = 2

\* C4: the host holds a copy of the output only after every launched unit has
\* reached Done with its transfers complete, and that copy is the output
\* region as the units left it.
C4_CopyBackAfterDone ==
    host.pc \in {"synced", "done"} =>
        /\ \A u \in DOMAIN unit : Finished(u)
        /\ host.pc = "done" => host.out = ZVals(zGm)

C4_Witness ==
    /\ host.pc = "done"
    /\ Cardinality(DOMAIN unit) > 1
    /\ async

\* C5: in Variant B, whenever the total a unit accumulated is zero or
\* negative, Normalize uses a reciprocal of exactly zero and every element it
\* stores is zero; no division by zero takes place.
C5_ZeroTotalGuard ==
    cfg.variant = "B" =>
        \A u \in DOMAIN unit :
            LET ur == unit[u]
                computed == \/ ur.pc \in {"NormStore", "Done"}
                            \/ ur.pc = "NormCopy" /\ ur.i > 0
            IN  (computed /\ ur.totalSum # Undef /\ ur.totalSum <= 0) =>
                    /\ ur.reciprocal = 0
                    /\ \A a \in Region(cfg, u) :
                          zGm[a].by = "norm" => zGm[a].v = 0
                    /\ ur.pc = "Done" =>
                          \A a \in Region(cfg, u) : zGm[a].by = "norm"

C5_Witness ==
    /\ cfg.variant = "B"
    /\ \E u \in DOMAIN unit :
          /\ unit[u].pc = "Done"
          /\ unit[u].totalSum = 0
          /\ \A a \in Region(cfg, u) : zGm[a].by = "norm" /\ zGm[a].v = 0

\* the whole input region of unit u holds the value v
RegionAll(u, v) == \A a \in Region(cfg, u) : xGm[a] = v

Abs(n) == IF n < 0 THEN 0 - n ELSE n

\* C6 (as stated): a Variant B unit whose region holds -1e38 at every position
\* ends with a zero total and an all-zero output region.
C6_AllZeros ==
    cfg.variant = "B" =>
        \A u \in DOMAIN unit :
            (unit[u].pc = "Done" /\ RegionAll(u, NEG_1E38)) =>
                \A a \in Region(cfg, u) : zGm[a].v = 0

\* C6 (amended): a Variant B unit whose region holds -1e38 at every position
\* finds -1e38 as its maximum, so every exponential is 1, the total is
\* BLOCK_LENGTH, the zero-total guard does not fire, and the output region is
\* uniform at 1 / BLOCK_LENGTH: finite, positive and equal at every position.
C6_Uniform ==
    cfg.variant = "B" =>
        \A u \in DOMAIN unit :
            (unit[u].pc = "Done" /\ RegionAll(u, NEG_1E38)) =>
                /\ unit[u].blockMax = NEG_1E38
                /\ unit[u].totalSum = BLOCK_LENGTH(cfg) * ONE
                /\ unit[u].reciprocal > 0
                /\ \A a \in Region(cfg, u) :
                      /\ zGm[a].by = "norm"
                      /\ zGm[a].v > 0
                      /\ zGm[a].v = zGm[BaseOffset(cfg, u)].v
                      /\ Abs(BLOCK_LENGTH(cfg) * zGm[a].v - ONE) <= BLOCK_LENGTH(cfg)

C6_Witness ==
    /\ cfg.variant = "B"
    /\ \E u \in DOMAIN unit :
          /\ unit[u].pc = "Done"
          /\ RegionAll(u, NEG_1E38)
          /\ zGm[BaseOffset(cfg, u)].v = ONE \div BLOCK_LENGTH(cfg)

\* C7 (as stated): once FindBlockMax has returned, the unit's maximum is the
\* true maximum of its input region, for every finite input.
C7_TrueMaximum ==
    cfg.variant = "B" =>
        \A u \in DOMAIN unit :
            PhaseRank(unit[u].pc) >= 3 => unit[u].blockMax = RegionMax(u)

\* C8: within one pass a unit transfers each element of its own region from
\* global memory exactly once and no element outside it: never twice while the
\* pass runs, and exactly once when the pass is over.
C8_ReadOncePerPass ==
    LET rs == RegionSize(cfg)
        bl == BLOCK_LENGTH(cfg)
        isA == cfg.variant = "A"
    IN  /\ obs.oob = FALSE
        /\ \A u \in DOMAIN unit :
              LET lo == BaseOffset(cfg, u)
                  ur == unit[u]
                  rk == PhaseRank(ur.pc)
                  r1 == obs.reads[u][1]
                  r2 == obs.reads[u][2]
              IN  \A a \in DOMAIN r1 :
                    /\ r1[a] <= 1 /\ r2[a] <= 1
                    /\ (a < lo \/ a >= lo + rs) => (r1[a] = 0 /\ r2[a] = 0)
                    /\ (a >= lo /\ a < lo + rs) =>
                          /\ ur.pc = "Done" => (r1[a] = 1 /\ r2[a] = 1)
                          /\ (~isA /\ rk >= 3) => r1[a] = 1
                          /\ (~isA /\ rk >= 4) => r2[a] = 1
                          /\ (isA /\ a < lo + ur.row * bl
                                /\ ur.pc # "Idle" /\ ur.pc # "Init") =>
                                (r1[a] = 1 /\ r2[a] = 1)

C8_Witness ==
    /\ async
    /\ \A u \in DOMAIN unit : unit[u].pc = "Done"
    /\ Cardinality(DOMAIN unit) > 1
    /\ cfg.variant = "A"
    /\ \A a \in Addrs(cfg) : \E u \in DOMAIN unit :
          obs.reads[u][1][a] = 1 /\ obs.reads[u][2][a] = 1

\* C9: when every unit is Done and the host has synchronised, every element
\* of the output has received its final write: in Variant A exactly one
\* write, made by CopyOut; in Variant B the scratch write of
\* ComputeExpSumAndStore followed by the write of Normalize, which is the
\* last one.  Each element is written by the unit that owns it and by no
\* other, and never more often.
C9_OutputFinal ==
    LET rs == RegionSize(cfg)
        isA == cfg.variant = "A"
        done == AllFinished
    IN  /\ \A a \in DOMAIN zGm :
              LET c == zGm[a]
              IN  /\ isA => (c.n <= 1 /\ c.by \in {"none", "out"})
                  /\ ~isA => c.n <= 2
                  /\ (~isA /\ c.n = 2) => c.by = "norm"
                  /\ (~isA /\ c.n = 1) => c.by = "exp"
                  /\ (done /\ isA) => (c.n = 1 /\ c.by = "out")
                  /\ (done /\ ~isA) => (c.n = 2 /\ c.by = "norm")
        /\ \A u \in DOMAIN unit :
              LET lo == BaseOffset(cfg, u)
                  w1 == obs.writes[u][1]
                  w2 == obs.writes[u][2]
              IN  \A a \in DOMAIN w1 :
                    /\ w1[a] <= 1 /\ w2[a] <= 1
                    /\ (a < lo \/ a >= lo + rs) => (w1[a] = 0 /\ w2[a] = 0)
                    /\ isA => w2[a] = 0

C9_Witness ==
    /\ AllFinished
    /\ async
    /\ cfg.variant = "B"
    /\ Cardinality(DOMAIN unit) > 1
    /\ \A a \in Addrs(cfg) : zGm[a].by = "norm" /\ zGm[a].n = 2

\* the elements of matrix row r and the sum of the outputs over it
RowAddrs(r) == (r * cfg.size) .. (r * cfg.size + cfg.size - 1)

RECURSIVE SumOver(_, _)
SumOver(mem, as) ==
    IF as = {} THEN 0
    ELSE LET a == CHOOSE b \in as : TRUE
         IN  mem[a].v + SumOver(mem, as \ {a})

\* the rounding the fixed-point quotients can lose over one row
RowTol == 2 * cfg.size

\* C10 (as stated): when every unit is Done, every output element lies in
\* [0, 1] and every matrix row of the output sums to 1 within tolerance, in
\* both variants and for every finite input.
C10_RowsSumToOne ==
    AllFinished =>
        /\ \A a \in Addrs(cfg) : zGm[a].v >= 0 /\ zGm[a].v <= ONE
        /\ \A r \in 0 .. (cfg.size - 1) :
              Abs(SumOver(zGm, RowAddrs(r)) - ONE) <= RowTol

\* the slots of queue qn of a unit that hold a tile in flight: acquired and
\* not yet released, or still being filled or drained by a transfer
InUse(ur, qn) ==
    {k \in 1 .. Len(ur[qn].slots) :
        \/ ur[qn].slots[k].st = "held"
        \/ Filling(ur, qn, k)
        \/ Draining(ur, qn, k)}

\* C13: in every reachable state and for every queue of every unit, the pool
\* holds exactly the BUFFER_NUM slots Init asked for, so the slots acquired
\* and not yet released, and the tiles in flight, never exceed BUFFER_NUM.
C13_InFlightBounded ==
    \A u \in DOMAIN unit : \A qn \in QueueNames :
        LET q == unit[u][qn]
            made == unit[u].pc \notin {"Idle", "Init"}
                    /\ (qn = "expQ" => cfg.variant = "B")
        IN  /\ made => Len(q.slots) = cfg.bufferNum
            /\ ~made => Len(q.slots) = 0
            /\ Acquired(q) <= cfg.bufferNum
            /\ Cardinality(InUse(unit[u], qn)) <= cfg.bufferNum

C13_Witness ==
    \E u \in DOMAIN unit : \E qn \in QueueNames :
        /\ Acquired(unit[u][qn]) >= 1
        /\ Cardinality(InUse(unit[u], qn)) = BUFFER_NUM

\* the sum of the exponentials of the n input elements from address lo on,
\* taken `step` apart
RECURSIVE ExpSumFrom(_, _, _)
ExpSumFrom(lo, step, n) ==
    IF n = 0 THEN 0
    ELSE FAdd(ExpSumFrom(lo, step, n - 1), FExp(xGm[lo + (n - 1) * step]))

\* the sum of the exponentials of the matrix row that starts at address lo
RowExpSum(lo) == ExpSumFrom(lo, 1, cfg.size)

\* C14: in Variant A the accumulator of a unit working on row r holds, lane
\* by lane, the exponentials of exactly the tiles of row r accumulated so far
\* in pass 1 (nothing before the first tile, nothing of an earlier row); the
\* reduce and broadcast happen only after all TILE_NUM * BUFFER_NUM tiles of
\* the row; during the whole of pass 2 every lane of the normalizer is the
\* sum of the exponentials of the elements of row r; and every output element
\* is the exponential of its input divided by the sum over its own row.
C14_RowNormalizer ==
    cfg.variant = "A" =>
        LET tl == TILE_LENGTH(cfg)
            bl == BLOCK_LENGTH(cfg)
            n == TilesPerPass(cfg)
        IN  /\ \A u \in DOMAIN unit :
                  LET ur == unit[u]
                      lo == BaseOffset(cfg, u) + ur.row * bl
                  IN  /\ ur.pc \in {"CopyIn1", "ComputeSum"} =>
                            /\ ur.i < n
                            /\ \A k \in 1 .. tl :
                                  ur.tmpCalc[k] = ExpSumFrom(lo + k - 1, tl, ur.i)
                      /\ ur.pc = "Reduce" =>
                            /\ ur.i = n
                            /\ \A k \in 1 .. tl :
                                  ur.tmpCalc[k] = ExpSumFrom(lo + k - 1, tl, n)
                      /\ ur.pc \in {"CopyIn2", "ComputeSoftmax", "CopyOut"} =>
                            /\ ur.i < n
                            /\ \A k \in 1 .. tl : ur.tmpCalc[k] = RowExpSum(lo)
            /\ \A a \in DOMAIN zGm :
                  zGm[a].by = "out" =>
                      zGm[a].v = FDiv(FExp(xGm[a]), RowExpSum((a \div bl) * bl))

\* a unit is in pass 2 of its second row, and the two rows have different sums
C14_Witness ==
    /\ cfg.variant = "A"
    /\ \E u \in DOMAIN unit :
          LET lo == BaseOffset(cfg, u) + unit[u].row * BLOCK_LENGTH(cfg)
          IN  /\ unit[u].row >= 1
              /\ unit[u].pc = "CopyOut"
              /\ RowExpSum(lo) # RowExpSum(lo - BLOCK_LENGTH(cfg))
              /\ unit[u].tmpCalc[1] = RowExpSum(lo)

\* the addresses of the tile that unit u's transfer at addr covers
TileAt(addr) == addr .. (addr + TILE_LENGTH(cfg) - 1)

\* C15: in Variant B no unit writes to, or reads back from, an output address
\* outside its own region, and the tile Normalize reads back is the tile of
\* exponentials the same unit stored for it with no other store in between:
\* while a read-back is in flight the elements it covers hold that store and
\* have been stored to once, and the tile Normalize multiplies is that store.
C15_ReadBackIsExp ==
    cfg.variant = "B" =>
        \A u \in DOMAIN unit :
            LET ur == unit[u]
                lo == BaseOffset(cfg, u)
                hi == lo + RegionSize(cfg)
                rb == obs.reads[u][3]
                w1 == obs.writes[u][1]
                w2 == obs.writes[u][2]
                st == obs.stored
            IN  /\ \A a \in Addrs(cfg) :
                       (a < lo \/ a >= hi) => rb[a] = 0 /\ w1[a] = 0 /\ w2[a] = 0
                /\ \A k \in 1 .. Len(ur.mte2) :
                       ur.mte2[k].mem = "z" =>
                           \A a \in TileAt(ur.mte2[k].addr) :
                               /\ zGm[a].by = "exp"
                               /\ zGm[a].n = 1
                               /\ zGm[a].v = st[a]
                /\ ur.pc = "NormStore" =>
                       LET addr == ur.zBase + TileOffsetB(cfg, ur.i)
                       IN  \A a \in TileAt(addr) :
                               /\ rb[a] = 1
                               /\ ur.expQ.slots[ur.hExp].data[a - addr + 1] = st[a]

\* C15: a unit other than the first is about to multiply a tile it read back
C15_Witness ==
    /\ cfg.variant = "B"
    /\ \E u \in DOMAIN unit :
           /\ u > 0
           /\ unit[u].pc = "NormStore"
           /\ \E v \in DOMAIN unit : v # u /\ unit[v].pc \notin {"Idle", "Init"}

\* the maximum FindBlockMax arrives at over the first n elements of matrix row r
RECURSIVE RowMaxUpTo(_, _)
RowMaxUpTo(r, n) ==
    IF n = 0 THEN NEG_1E38
    ELSE MaxStep(RowMaxUpTo(r, n - 1), xGm[r * cfg.size + n - 1])

\* the total of e^(x - m) over the first n elements of matrix row r
RECURSIVE RowTotalUpTo(_, _, _)
RowTotalUpTo(r, m, n) ==
    IF n = 0 THEN 0
    ELSE FAdd(RowTotalUpTo(r, m, n - 1), FExp(FSub(xGm[r * cfg.size + n - 1], m)))

\* C16: in the shipped Variant B build a block is one matrix row and there is
\* one unit per row, unit i based at row i; in a Variant B run unit i transfers
\* in elements of row i only, and the maximum and the total it works with are
\* those FindBlockMax and ComputeExpSumAndStore accumulate over row i alone
\* (over the tiles done so far while the phase runs, the whole row after it).
C16_RegionIsRow ==
    /\ BLOCK_LENGTH(ShippedB) = MATRIX_SIZE
    /\ RegionSize(ShippedB) = MATRIX_SIZE
    /\ ShippedB.blockDim = MATRIX_SIZE
    /\ \A i \in Units(ShippedB) : BaseOffset(ShippedB, i) = i * MATRIX_SIZE
    /\ cfg.variant = "B" =>
           \A u \in DOMAIN unit :
               LET ur == unit[u]
                   rk == PhaseRank(ur.pc)
                   done == ur.i * TILE_LENGTH(cfg)
                   r1 == obs.reads[u][1]
                   r2 == obs.reads[u][2]
               IN  /\ RegionSize(cfg) = cfg.size
                   /\ rk >= 2 => ur.xBase = u * cfg.size
                   /\ \A a \in Addrs(cfg) :
                          a \div cfg.size # u => r1[a] = 0 /\ r2[a] = 0
                   /\ rk = 2 /\ ur.i > 0 => ur.blockMax = RowMaxUpTo(u, done)
                   /\ rk >= 3 => ur.blockMax = RowMaxUpTo(u, cfg.size)
                   /\ rk = 3 /\ ur.i > 0 =>
                          ur.totalSum = RowTotalUpTo(u, ur.blockMax, done)
                   /\ rk >= 4 => ur.totalSum = RowTotalUpTo(u, ur.blockMax, cfg.size)

\* C16: the second unit has its maximum and total, and the first row has
\* another maximum and another total
C16_Witness ==
    /\ cfg.variant = "B"
    /\ \E u \in DOMAIN unit :
           /\ u > 0
           /\ PhaseRank(unit[u].pc) >= 4
           /\ unit[u].blockMax = RowMaxUpTo(u, cfg.size)
           /\ unit[u].blockMax # RowMaxUpTo(0, cfg.size)
           /\ unit[u].totalSum # RowTotalUpTo(0, RowMaxUpTo(0, cfg.size), cfg.size)

\* the slots of unit u's queue qn are all back in the pool
AllReturned(ur, qn) ==
    /\ ur[qn].fifo = <<>>
    /\ \A k \in 1 .. Len(ur[qn].slots) : ur[qn].slots[k].st = "free"

\* C17, the resource half as a state predicate: a queue never has more than
\* one slot acquired and not released, and a unit at Done has every slot of
\* every queue back in its pool.
C17_SlotsReturned ==
    \A u \in DOMAIN unit : \A qn \in QueueNames :
        /\ Acquired(unit[u][qn]) <= 1
        /\ unit[u].pc = "Done" => AllReturned(unit[u], qn)

\* C17, the resource half as a step property: a step that acquires a slot of a
\* queue finds no slot of that queue acquired (the previous one was released).
C17_AcquireStep ==
    \A u \in DOMAIN unit : \A qn \in QueueNames :
        Acquired(unit'[u][qn]) > Acquired(unit[u][qn]) => Acquired(unit[u][qn]) = 0

\* C17: under fair scheduling every launched unit reaches Done, in both
\* variants and both builds; every slot acquired from a queue is released
\* before the next acquire on that queue, and a unit at Done has returned every
\* slot of every queue.
C17_Terminates ==
    /\ []C17_SlotsReturned
    /\ [][C17_AcquireStep]_vars
    /\ (host.pc = "launched") ~> (\A u \in DOMAIN unit : unit[u].pc = "Done")

\* C17: the asynchronous build has run more than one unit to Done, each having
\* stored to the output, with every slot returned and every transfer landed
C17_Witness ==
    /\ async
    /\ Cardinality(DOMAIN unit) > 1
    /\ \A u \in DOMAIN unit :
           /\ Finished(u)
           /\ \A qn \in QueueNames : AllReturned(unit[u], qn)
           /\ \E a \in Addrs(cfg) : obs.writes[u][1][a] > 0

====
